---- MODULE Spec2Model ----
(***************************************************************************)
(* Model of the ranking stage of NLWeb_Core (nlweb_core/ranking.py).       *)
(*                                                                         *)
(* One ranking request: Ranking.do() creates one asyncio task per          *)
(* candidate item (Ranking.rankItem), gathers them, then filters, sorts,   *)
(* truncates and flushes (Ranking.sendRemainingAnswers).  The tasks run on *)
(* one event loop: a task runs without interruption from one await to the  *)
(* next, so every action below is the code between two awaits.  The awaits *)
(* are ask_llm (line 54), pre_checks_done_event.wait() (lines 98, 134,     *)
(* 199; it does not suspend when the event is already set) and             *)
(* handler.send_answer (lines 107, 162).                                   *)
(*                                                                         *)
(* The handler (connection_alive_event, pre_checks_done_event, get_param,  *)
(* send_answer) is a collaborator: its events are set and cleared by the   *)
(* environment actions, and send_answer's outcome is a nondeterministic    *)
(* choice between success, a connection error and another exception.       *)
(***************************************************************************)
EXTENDS Integers, Sequences, FiniteSets, TLC

\* ---------------------------------------------------------------- bounds
\* Largest batch of candidate items of one request.
NumItems == 2

\* Calls of the retriever's two functions in one run.
MaxCalls == 4

\* ------------------------------------------------------ program constants
EARLY_SEND_THRESHOLD == 59
NUM_RESULTS_TO_SEND == 10
DEFAULT_MIN_SCORE == 51

\* ------------------------------------------------------------ input sets
Items == 1..NumItems

\* Integer scores a scoring call or an item attribute can carry: the default
\* floor itself, the early-send threshold itself, and a value above both.
IntScores == {51, 59, 61}

\* Values of the min_score request parameter: the default, and one above the
\* early-send threshold.
MinScoreParams == {DEFAULT_MIN_SCORE, 61}

\* Values of the max_results request parameter: the default (parameter
\* absent), small quotas, zero and a negative value.
MaxResultsParams == {-1, 0, 1, 2, NUM_RESULTS_TO_SEND}

\* What the provider's completion yields, and ask_llm hands back to rankItem.
\* ok = FALSE: no usable record (a record without "score" or "description",
\* or the {} of ask_llm, so ranking["score"] raises KeyError).  isInt = FALSE: a record whose score is not a number
\* (JSON string), which Python refuses to compare with an int.
Rankings ==
    {[ok |-> FALSE, isInt |-> FALSE, score |-> 0]}
    \cup {[ok |-> TRUE, isInt |-> FALSE, score |-> 0]}
    \cup {[ok |-> TRUE, isInt |-> TRUE, score |-> s] : s \in IntScores}

\* The candidate's own JSON object (schema_object), as far as its attributes
\* collide with the fields of the result: none, "score", or a true "sent".
SchemaObjects ==
    { [hasScore |-> FALSE, score |-> 0, hasSent |-> FALSE],
      [hasScore |-> TRUE, score |-> 61, hasSent |-> FALSE],
      [hasScore |-> FALSE, score |-> 0, hasSent |-> TRUE] }

\* postQueryProcessing.py:69, 152  the '@type' of the records PostQueryProcessing sends.
SyntheticTypes == {"LocationMap", "Summary"}

\* Outcomes of one await handler.send_answer(...), or handler.send_results(...).
SendOutcomes == {"ok", "connection_error", "other_error"}

VARIABLES
    nItems,          \* len(self.items)
    strict,          \* CONFIG.should_raise_exceptions()
    minScore,        \* handler.get_param('min_score', int, 51)
    maxResults,      \* handler.get_param('max_results', int, NUM_RESULTS_TO_SEND)
    alive,           \* handler.connection_alive_event.is_set()
    preChecksDone,   \* handler.pre_checks_done_event.is_set()
    pc,              \* position of each rankItem task
    score,           \* result["score"] of each built result
    scoreIsInt,      \* whether result["score"] is a number
    sent,            \* result["sent"] of each built result
    scoreFromRanking, \* result["score"] is the ranking["score"] the scoring call returned
    rankedAnswers,   \* self.rankedAnswers: the results in append order
    numResultsSent,  \* self.num_results_sent
    doPc,            \* position of do()
    finalStored,     \* handler.final_ranked_answers has been assigned
    finalRanked,     \* handler.final_ranked_answers
    toSend,          \* to_send of sendRemainingAnswers
    flushIdx,        \* index in to_send of the send in flight
    handed,          \* per item: send_answer calls started with its record
    payload,         \* per item: the keys of the record last passed to send_answer
    delivered,       \* per item: send_answer calls that returned normally
    slotAtScore,     \* per item: when its scoring ended it was early-eligible, the
                     \* connection was alive and num_results_sent < max_results
    slotAtCheck,     \* per item: num_results_sent < max_results at its quota check
    sendFailed,      \* some send_answer call has raised
    llmCall,         \* per item: how its ask_llm call ended (timed out; raised)
    postPc,          \* position of PostQueryProcessing.do()
    summarize,       \* 'summarize' in handler.modes
    synthHanded,     \* per synthetic record type: send_results calls started
    synthDelivered,  \* per synthetic record type: send_results calls that returned normally
    postFailed,      \* the post-processing steps that swallowed an exception
    withAddress,     \* results of the final set for which _extract_address gave an address
    mapLocations,    \* 'locations' of the LocationMap record handed to the transport
    clientCache,     \* retriever._client_cache: a function from the keys present to the cached objects
    objects,         \* number of client objects constructed so far (the next one's identity)
    calls,           \* calls of get_vector_db_client and get_client made so far
    lastCall,        \* the last call: its function, arguments and outcome
    built,           \* per backend key: backend clients constructed
    handedOut        \* per backend key: the identities get_client has returned

rankVars == <<nItems, strict, minScore, maxResults, alive, preChecksDone, pc, score,
              scoreIsInt, sent, scoreFromRanking, rankedAnswers, numResultsSent, doPc,
              finalStored, finalRanked, toSend, flushIdx, handed, delivered,
              slotAtScore, slotAtCheck, sendFailed, payload, llmCall>>

\* The variables of the ranking other than the delivered count and the sent flags.
postFrame == <<nItems, strict, minScore, maxResults, alive, preChecksDone, pc,
               score, scoreIsInt, scoreFromRanking, rankedAnswers, doPc,
               finalStored, finalRanked, toSend, flushIdx, handed, delivered,
               slotAtScore, slotAtCheck, sendFailed, payload, llmCall>>

postVars == <<postPc, summarize, synthHanded, synthDelivered, postFailed,
              withAddress, mapLocations>>

cacheVars == <<clientCache, objects, calls, lastCall, built, handedOut>>

vars == <<rankVars, postVars, cacheVars>>

\* ------------------------------------------------------------ pure helpers

\* ranking.py:92  result["score"] > self.EARLY_SEND_THRESHOLD
EarlyEligible(s) == s > EARLY_SEND_THRESHOLD

\* Mutant of QuotaOpen: the quota check off by one.
QuotaOpenOffByOne(n, max) == n + 1 < max

\* ranking.py:104  self.num_results_sent < max_results
QuotaOpen(n, max) == n < max

\* Mutant of Qualifies: an inclusive floor.
QualifiesInclusive(s, min) == s >= min

\* ranking.py:210  r['score'] > min_score_threshold
Qualifies(s, min) == s > min

\* ranking.py:68-81  the dict literal sets "score" from the ranking and "sent"
\* to False; the loop over schema_object.items() then overwrites every key but
\* "url", "score" and "sent" included.
ResultScore(r, o) == IF o.hasScore THEN o.score ELSE r.score
ResultScoreIsInt(r, o) == IF o.hasScore THEN TRUE ELSE r.isInt
ResultSent(r, o) == o.hasSent

\* Whether the built result carries the score of the scoring call.
ScoreKept(r, o) ==
    /\ ResultScoreIsInt(r, o) = r.isInt
    /\ ResultScore(r, o) = r.score

\* Python's seq[:n]: the first n entries for n >= 0, all but the last -n
\* entries for n < 0.
SliceTo(seq, n) ==
    IF n >= 0
    THEN SubSeq(seq, 1, IF n < Len(seq) THEN n ELSE Len(seq))
    ELSE SubSeq(seq, 1, IF Len(seq) + n > 0 THEN Len(seq) + n ELSE 0)

\* Mutant of InsertDesc: a sort that puts x in front of the entries with its
\* own score (descending, but not stable).
RECURSIVE InsertDescUnstable(_, _)
InsertDescUnstable(sorted, x) ==
    IF sorted = <<>> THEN <<x>>
    ELSE IF score[Head(sorted)] > score[x]
         THEN <<Head(sorted)>> \o InsertDescUnstable(Tail(sorted), x)
         ELSE <<x>> \o sorted

\* ranking.py:213  sorted(..., key=score, reverse=True) is stable: x goes behind every entry
\* whose score is at least its own.
RECURSIVE InsertDesc(_, _)
InsertDesc(sorted, x) ==
    IF sorted = <<>> THEN <<x>>
    ELSE IF score[Head(sorted)] >= score[x]
         THEN <<Head(sorted)>> \o InsertDesc(Tail(sorted), x)
         ELSE <<x>> \o sorted

\* Mutant of SortDesc: the filtered results are left in arrival order.
SortDescNone(seq) == seq

\* ranking.py:213  ranked = sorted(filtered, key=lambda x: x["score"], reverse=True)
RECURSIVE SortDesc(_)
SortDesc(seq) ==
    IF seq = <<>> THEN <<>>
    ELSE InsertDesc(SortDesc(SubSeq(seq, 1, Len(seq) - 1)), seq[Len(seq)])

\* Mutant of Filtered: the filter also drops the results already sent.
RECURSIVE FilteredUnsent(_, _)
FilteredUnsent(answers, min) ==
    IF answers = <<>> THEN <<>>
    ELSE IF Qualifies(score[Head(answers)], min) /\ ~sent[Head(answers)]
         THEN <<Head(answers)>> \o FilteredUnsent(Tail(answers), min)
         ELSE FilteredUnsent(Tail(answers), min)

\* ranking.py:210  filtered = [r for r in self.rankedAnswers if r['score'] > min_score_threshold]
RECURSIVE Filtered(_, _)
Filtered(answers, min) ==
    IF answers = <<>> THEN <<>>
    ELSE IF Qualifies(score[Head(answers)], min)
         THEN <<Head(answers)>> \o Filtered(Tail(answers), min)
         ELSE Filtered(Tail(answers), min)

\* ranking.py:213  ranked
Ranked(answers, min) == SortDesc(Filtered(answers, min))

\* ranking.py:214  ranked[:max_results]
FinalSet(answers, min, max) == SliceTo(Ranked(answers, min), max)

\* Mutant of Unsent: the flush does not look at the sent flag.
UnsentAll(answers) == answers

\* ranking.py:140  unsent = [r for r in answers if not r["sent"]]
RECURSIVE Unsent(_)
Unsent(answers) ==
    IF answers = <<>> THEN <<>>
    ELSE IF ~sent[Head(answers)]
         THEN <<Head(answers)>> \o Unsent(Tail(answers))
         ELSE Unsent(Tail(answers))

\* ranking.py:144  remaining_slots
RemainingSlots(max, n) == max - n

\* ranking.py:152  to_send
ToSend(answers, max, n) == SliceTo(Unsent(answers), RemainingSlots(max, n))

\* ranking.py:68-76  the keys of a result: those of the dict literal.  The
\* item's own attributes are copied over them (lines 79-81); attributes with
\* other names are carried along unchanged and are left out here.
ResultFields == {"@type", "url", "name", "site", "score", "description", "sent"}

\* Mutant of RecordToSend: the copy drops the sent flag only.
RecordToSendWithScore(fields) == fields \ {"sent"}

\* ranking.py:106, 160  result_to_send = {k: v for k, v in result.items()
\*                                       if k != "sent" and k != "score"}
RecordToSend(fields) == fields \ {"sent", "score"}

\* llm.py:224-239  how the awaited provider call of ask_llm can end.
LlmOutcomes == {"completed", "timeout", "error"}

\* llm.py:185-196, 216-219, 231-239  what ask_llm returns when it has no result.
EmptyResponse == [ok |-> FALSE, isInt |-> FALSE, score |-> 0]

\* llm.py:224-239  ask_llm: the provider's record when the call completes;
\* asyncio.TimeoutError and every other exception are caught and {} is
\* returned.  Nothing is raised to the caller.
AskLlm(out, p) ==
    CASE out = "completed" -> [raised |-> FALSE, value |-> p]
      [] out = "timeout" -> [raised |-> FALSE, value |-> EmptyResponse]
      [] out = "error" -> [raised |-> FALSE, value |-> EmptyResponse]

\* ranking.py:115-122  the except clause of rankItem: swallow, or re-raise in
\* strict mode (the task then ends with the exception, which gather collects).
ExcPc == IF strict THEN "raised" ELSE "swallowed"

\* Mutant of Terminated: gather does not wait for a task suspended in a send.
TerminatedOrSending(i) == pc[i] \in {"none", "done", "swallowed", "raised", "sending"}

\* Mutant of Terminated: gather waits for ever for a task that ended with an exception.
TerminatedCleanly(i) == pc[i] \in {"none", "done"}

\* A task that asyncio.gather no longer waits for (or that was never created).
Terminated(i) == pc[i] \in {"none", "done", "swallowed", "raised"}

\* ----------------------------------------------------------------- Init

\* ------------------------------------------------ retriever: client cache

\* CONFIG.retrieval_endpoints, in configuration order; every endpoint is
\* enabled and has the credentials its db_type requires.  Names are
\* sequences of tokens, so that keys built from them can be compared.
Endpoints == <<(<<"local">>), (<<"cloud">>)>>

EndpointNames == {Endpoints[k] : k \in 1..Len(Endpoints)}

\* endpoint_config.db_type of a configured endpoint.
DbType(e) == IF e = <<"local">> THEN <<"qdrant">> ELSE <<"milvus">>

\* An argument that was not given (None).
NotGiven == <<>>

\* The endpoint_name arguments of the calls: none, a configured endpoint, or
\* a name that is not in the configuration.
EndpointArgs == {NotGiven} \cup EndpointNames \cup {<<"other">>}

\* query_params.get('db') or query_params.get('retrieval_backend').
OverrideArgs == {NotGiven} \cup EndpointNames

\* retriever.py:269  cache_key = f"{self.db_type}_{self.endpoint_name}"
BackendKey(e) == DbType(e) \o <<"_">> \o e

\* retriever.py:370  cache_key = endpoint_name or 'default'
FactoryKey(en) == IF en = NotGiven THEN <<"default">> ELSE en

BackendKeys == {BackendKey(e) : e \in EndpointNames}

\* retriever.py:23  _client_cache = {}
EmptyDict == [k \in {} |-> 0]

\* retriever.py:325, 378  _client_cache[cache_key] = client
Put(d, k, v) == [x \in DOMAIN d \cup {k} |-> IF x = k THEN v ELSE d[x]]

\* The count, and the set, recorded under key k (none recorded: 0, {}).
Count(d, k) == IF k \in DOMAIN d THEN d[k] ELSE 0

Given(d, k) == IF k \in DOMAIN d THEN d[k] ELSE {}

\* The result of a call that raised.
NoEntry == [kind |-> "none", endpoint |-> NotGiven, id |-> 0]

NoCall == [fn |-> "none", endpoint |-> NotGiven, override |-> NotGiven,
           raised |-> FALSE, result |-> NoEntry]

Init ==
    /\ nItems \in 0..NumItems
    /\ strict \in BOOLEAN
    /\ minScore \in MinScoreParams
    /\ maxResults \in MaxResultsParams
    /\ alive = TRUE
    /\ preChecksDone = FALSE
    /\ pc = [i \in Items |-> "none"]
    /\ score = [i \in Items |-> 0]
    /\ scoreIsInt = [i \in Items |-> TRUE]
    /\ sent = [i \in Items |-> FALSE]
    /\ scoreFromRanking = [i \in Items |-> TRUE]
    /\ rankedAnswers = <<>>
    /\ numResultsSent = 0
    /\ doPc = "start"
    /\ finalStored = FALSE
    /\ finalRanked = <<>>
    /\ toSend = <<>>
    /\ flushIdx = 0
    /\ handed = [i \in Items |-> 0]
    /\ payload = [i \in Items |-> {}]
    /\ llmCall = [i \in Items |-> [timedOut |-> FALSE, raised |-> FALSE]]
    /\ postPc = "idle"
    /\ summarize = FALSE
    /\ synthHanded = [k \in SyntheticTypes |-> 0]
    /\ synthDelivered = [k \in SyntheticTypes |-> 0]
    /\ postFailed = {}
    /\ withAddress = {}
    /\ mapLocations = <<>>
    /\ clientCache = EmptyDict
    /\ objects = 0
    /\ calls = 0
    /\ lastCall = NoCall
    /\ built = EmptyDict
    /\ handedOut = EmptyDict
    /\ delivered = [i \in Items |-> 0]
    /\ slotAtScore = [i \in Items |-> FALSE]
    /\ slotAtCheck = [i \in Items |-> FALSE]
    /\ sendFailed = FALSE

\* --------------------------------------------------------- rankItem tasks

\* The task of item i ends, or suspends, at position p without a send.
TaskMoves(i, p) ==
    /\ pc' = [pc EXCEPT ![i] = p]
    /\ UNCHANGED <<handed, payload, slotAtCheck>>

\* ranking.py:100-107  after the pre-checks wait: read max_results, check the
\* quota and, if a slot is left, call send_answer and suspend in it.
QuotaCheckAndSend(i) ==
    /\ slotAtCheck' = [slotAtCheck EXCEPT ![i] = numResultsSent < maxResults]
    /\ IF QuotaOpen(numResultsSent, maxResults)
       THEN /\ pc' = [pc EXCEPT ![i] = "sending"]
            /\ handed' = [handed EXCEPT ![i] = @ + 1]
            /\ payload' = [payload EXCEPT ![i] = RecordToSend(ResultFields)]
       ELSE /\ pc' = [pc EXCEPT ![i] = "done"]
            /\ UNCHANGED <<handed, payload>>

\* Mutant of AfterAppend: the early send does not wait for the pre-checks.
AfterAppendNoWait(i, s, isInt) ==
    IF ~isInt THEN TaskMoves(i, ExcPc)
    ELSE IF ~EarlyEligible(s) THEN TaskMoves(i, "done")
    ELSE IF ~alive THEN TaskMoves(i, "done")
    ELSE QuotaCheckAndSend(i)

\* ranking.py:91-98  the early-send decision up to the first await after the
\* append.  A score that is not a number makes the comparison of line 92
\* raise TypeError, which the except clause of line 115 handles.
AfterAppend(i, s, isInt) ==
    IF ~isInt THEN TaskMoves(i, ExcPc)
    ELSE IF ~EarlyEligible(s) THEN TaskMoves(i, "done")
    ELSE IF ~alive THEN TaskMoves(i, "done")
    ELSE IF ~preChecksDone THEN TaskMoves(i, "waitPre")
    ELSE QuotaCheckAndSend(i)

\* Mutant of BuildAndAppend: the result is dropped when the connection is
\* no longer alive.
BuildAndAppendIfAlive(i, r, o) ==
    /\ score' = [score EXCEPT ![i] = IF o.hasScore THEN o.score ELSE r.score]
    /\ scoreIsInt' = [scoreIsInt EXCEPT ![i] = IF o.hasScore THEN TRUE ELSE r.isInt]
    /\ sent' = [sent EXCEPT ![i] = o.hasSent]
    /\ scoreFromRanking' = [scoreFromRanking EXCEPT ![i] = ~o.hasScore \/ (r.isInt /\ o.score = r.score)]
    /\ rankedAnswers' = IF alive THEN Append(rankedAnswers, i) ELSE rankedAnswers

\* ranking.py:66-89  build the result from the ranking r and the item's own
\* JSON object o, and append it to self.rankedAnswers.
BuildAndAppend(i, r, o) ==
    /\ score' = [score EXCEPT ![i] = ResultScore(r, o)]
    /\ scoreIsInt' = [scoreIsInt EXCEPT ![i] = ResultScoreIsInt(r, o)]
    /\ sent' = [sent EXCEPT ![i] = ResultSent(r, o)]
    /\ scoreFromRanking' = [scoreFromRanking EXCEPT ![i] = ScoreKept(r, o)]
    /\ rankedAnswers' = Append(rankedAnswers, i)

\* ranking.py:54-98  ask_llm returns to, or raises in, the task of item i:
\* the provider call ends with outcome out (and record p when it completes),
\* and the item's own JSON object is o.
ScoreDone(i) ==
    /\ pc[i] = "scoring"
    /\ \E out \in LlmOutcomes, p \in Rankings, o \in SchemaObjects :
         LET call == AskLlm(out, p)
             r == call.value
         IN  /\ llmCall' = [llmCall EXCEPT ![i] =
                    [timedOut |-> out = "timeout", raised |-> call.raised]]
             /\ IF call.raised \/ ~r.ok
                THEN /\ TaskMoves(i, ExcPc)
                     /\ UNCHANGED <<score, scoreIsInt, sent, scoreFromRanking,
                                    rankedAnswers, slotAtScore>>
                ELSE /\ BuildAndAppend(i, r, o)
                     /\ slotAtScore' = [slotAtScore EXCEPT ![i] =
                            /\ ResultScoreIsInt(r, o)
                            /\ ResultScore(r, o) > EARLY_SEND_THRESHOLD
                            /\ alive
                            /\ numResultsSent < maxResults]
                     /\ AfterAppend(i, ResultScore(r, o), ResultScoreIsInt(r, o))
    /\ UNCHANGED <<postVars, cacheVars>>
    /\ UNCHANGED <<nItems, strict, minScore, maxResults, alive, preChecksDone,
                   numResultsSent, doPc, finalStored, finalRanked, toSend,
                   flushIdx, delivered, sendFailed>>

\* ranking.py:98-107  pre_checks_done_event.wait() returns to the task.
PreChecksPassed(i) ==
    /\ pc[i] = "waitPre"
    /\ preChecksDone
    /\ QuotaCheckAndSend(i)
    /\ UNCHANGED <<postVars, cacheVars>>
    /\ UNCHANGED <<nItems, llmCall, strict, minScore, maxResults, alive, preChecksDone,
                   score, scoreIsInt, sent, scoreFromRanking, rankedAnswers,
                   numResultsSent, doPc, finalStored, finalRanked, toSend,
                   flushIdx, delivered, slotAtScore, sendFailed>>

\* Mutant of SendOk: a send that returns marks the connection alive again.
SendOkRevives(i) ==
    /\ sent' = [sent EXCEPT ![i] = TRUE]
    /\ numResultsSent' = numResultsSent + 1
    /\ delivered' = [delivered EXCEPT ![i] = @ + 1]
    /\ pc' = [pc EXCEPT ![i] = "done"]
    /\ alive' = TRUE
    /\ UNCHANGED sendFailed

\* ranking.py:107-122  send_answer returns to, or raises in, the task.
SendOk(i) ==
    /\ sent' = [sent EXCEPT ![i] = TRUE]
    /\ numResultsSent' = numResultsSent + 1
    /\ delivered' = [delivered EXCEPT ![i] = @ + 1]
    /\ pc' = [pc EXCEPT ![i] = "done"]
    /\ UNCHANGED <<alive, sendFailed>>

\* Mutant of SendConnectionError: the task returns without clearing alive.
SendConnectionErrorKeepAlive(i) ==
    /\ sendFailed' = TRUE
    /\ pc' = [pc EXCEPT ![i] = "done"]
    /\ UNCHANGED <<alive, sent, numResultsSent, delivered>>

\* ranking.py:111-113  except (BrokenPipeError, ConnectionResetError)
SendConnectionError(i) ==
    /\ alive' = FALSE
    /\ sendFailed' = TRUE
    /\ pc' = [pc EXCEPT ![i] = "done"]
    /\ UNCHANGED <<sent, numResultsSent, delivered>>

SendOtherError(i) ==
    /\ sendFailed' = TRUE
    /\ pc' = [pc EXCEPT ![i] = ExcPc]
    /\ UNCHANGED <<alive, sent, numResultsSent, delivered>>

SendDone(i) ==
    /\ pc[i] = "sending"
    /\ \E out \in SendOutcomes :
         CASE out = "ok" -> SendOk(i)
           [] out = "connection_error" -> SendConnectionError(i)
           [] out = "other_error" -> SendOtherError(i)
    /\ UNCHANGED <<postVars, cacheVars>>
    /\ UNCHANGED <<nItems, llmCall, strict, minScore, maxResults, preChecksDone, score,
                   scoreIsInt, scoreFromRanking, rankedAnswers, doPc, finalStored,
                   finalRanked, toSend, flushIdx, handed, payload, slotAtScore, slotAtCheck>>

\* ------------------------------------------------------------------ do()

\* ranking.py:125-162  sendRemainingAnswers up to its first send_answer.
SendRemainingStart(answers) ==
    IF ~alive
    THEN doPc' = "done" /\ UNCHANGED <<toSend, flushIdx, handed, payload>>
    ELSE IF RemainingSlots(maxResults, numResultsSent) <= 0
            \/ ToSend(answers, maxResults, numResultsSent) = <<>>
    THEN doPc' = "done" /\ UNCHANGED <<toSend, flushIdx, handed, payload>>
    ELSE /\ toSend' = ToSend(answers, maxResults, numResultsSent)
         /\ flushIdx' = 1
         /\ handed' = [handed EXCEPT ![toSend'[1]] = @ + 1]
         /\ payload' = [payload EXCEPT ![toSend'[1]] = RecordToSend(ResultFields)]
         /\ doPc' = "flushing"

\* ranking.py:202-220  filter, sort, truncate, store, start the flush.  The
\* comparison of line 210 raises TypeError out of do() when a result in the
\* collection carries a score that is not a number.
Aggregate ==
    IF \E k \in 1..Len(rankedAnswers) : ~scoreIsInt[rankedAnswers[k]]
    THEN /\ doPc' = "raised"
         /\ UNCHANGED <<finalStored, finalRanked, toSend, flushIdx, handed, payload>>
    ELSE /\ finalStored' = TRUE
         /\ finalRanked' = FinalSet(rankedAnswers, minScore, maxResults)
         /\ SendRemainingStart(Ranked(rankedAnswers, minScore))

\* Mutant of DoStart: the tasks are created whatever the connection's state.
DoStartAlways ==
    /\ doPc = "start"
    /\ pc' = [i \in Items |-> IF i <= nItems THEN "scoring" ELSE "none"]
    /\ doPc' = "gather"
    /\ UNCHANGED <<postVars, cacheVars>>
    /\ UNCHANGED <<nItems, llmCall, strict, minScore, maxResults, alive, preChecksDone,
                   score, scoreIsInt, sent, scoreFromRanking, rankedAnswers,
                   numResultsSent, finalStored, finalRanked, toSend, flushIdx,
                   handed, payload, delivered, slotAtScore, slotAtCheck, sendFailed>>

\* ranking.py:178-186  create the tasks (all of them or none: the loop has no
\* await) and suspend in gather.
DoStart ==
    /\ doPc = "start"
    /\ pc' = [i \in Items |-> IF alive /\ i <= nItems THEN "scoring" ELSE "none"]
    /\ doPc' = "gather"
    /\ UNCHANGED <<postVars, cacheVars>>
    /\ UNCHANGED <<nItems, llmCall, strict, minScore, maxResults, alive, preChecksDone,
                   score, scoreIsInt, sent, scoreFromRanking, rankedAnswers,
                   numResultsSent, finalStored, finalRanked, toSend, flushIdx,
                   handed, payload, delivered, slotAtScore, slotAtCheck, sendFailed>>

\* Mutant of DoGathered: do() does not read alive after gather.
DoGatheredNoAliveCheck ==
    /\ doPc = "gather"
    /\ \A i \in Items : Terminated(i)
    /\ IF ~preChecksDone
       THEN doPc' = "waitPre"
            /\ UNCHANGED <<finalStored, finalRanked, toSend, flushIdx, handed, payload>>
       ELSE Aggregate
    /\ UNCHANGED <<postVars, cacheVars>>
    /\ UNCHANGED <<nItems, llmCall, strict, minScore, maxResults, alive, preChecksDone,
                   pc, score, scoreIsInt, sent, scoreFromRanking, rankedAnswers,
                   numResultsSent, delivered, slotAtScore, slotAtCheck, sendFailed>>

\* ranking.py:186-220  gather returns once every task has ended.
DoGathered ==
    /\ doPc = "gather"
    /\ \A i \in Items : Terminated(i)
    /\ IF ~alive
       THEN doPc' = "done"
            /\ UNCHANGED <<finalStored, finalRanked, toSend, flushIdx, handed, payload>>
       ELSE IF ~preChecksDone
       THEN doPc' = "waitPre"
            /\ UNCHANGED <<finalStored, finalRanked, toSend, flushIdx, handed, payload>>
       ELSE Aggregate
    /\ UNCHANGED <<postVars, cacheVars>>
    /\ UNCHANGED <<nItems, llmCall, strict, minScore, maxResults, alive, preChecksDone,
                   pc, score, scoreIsInt, sent, scoreFromRanking, rankedAnswers,
                   numResultsSent, delivered, slotAtScore, slotAtCheck, sendFailed>>

\* ranking.py:199-220  pre_checks_done_event.wait() returns to do().
DoPreChecksPassed ==
    /\ doPc = "waitPre"
    /\ preChecksDone
    /\ Aggregate
    /\ UNCHANGED <<postVars, cacheVars>>
    /\ UNCHANGED <<nItems, llmCall, strict, minScore, maxResults, alive, preChecksDone,
                   pc, score, scoreIsInt, sent, scoreFromRanking, rankedAnswers,
                   numResultsSent, delivered, slotAtScore, slotAtCheck, sendFailed>>

\* ranking.py:158-173  one send_answer of the flush loop returns or raises.
FlushSendOk ==
    /\ sent' = [sent EXCEPT ![toSend[flushIdx]] = TRUE]
    /\ numResultsSent' = numResultsSent + 1
    /\ delivered' = [delivered EXCEPT ![toSend[flushIdx]] = @ + 1]
    /\ IF flushIdx < Len(toSend)
       THEN /\ flushIdx' = flushIdx + 1
            /\ handed' = [handed EXCEPT ![toSend[flushIdx + 1]] = @ + 1]
            /\ payload' = [payload EXCEPT ![toSend[flushIdx + 1]] = RecordToSend(ResultFields)]
            /\ UNCHANGED doPc
       ELSE /\ doPc' = "done"
            /\ UNCHANGED <<flushIdx, handed, payload>>
    /\ UNCHANGED <<alive, sendFailed>>

\* Mutant of FlushSendError: the loop goes on with the next entry.
FlushSendErrorGoesOn ==
    /\ sendFailed' = TRUE
    /\ IF flushIdx < Len(toSend)
       THEN /\ flushIdx' = flushIdx + 1
            /\ handed' = [handed EXCEPT ![toSend[flushIdx + 1]] = @ + 1]
            /\ payload' = [payload EXCEPT ![toSend[flushIdx + 1]] = RecordToSend(ResultFields)]
            /\ UNCHANGED doPc
       ELSE /\ doPc' = "done"
            /\ UNCHANGED <<flushIdx, handed, payload>>
    /\ UNCHANGED <<alive, sent, numResultsSent, delivered>>

\* ranking.py:166-173  both except clauses of the flush clear alive and end it.
FlushSendError ==
    /\ alive' = FALSE
    /\ sendFailed' = TRUE
    /\ doPc' = "done"
    /\ UNCHANGED <<sent, numResultsSent, delivered, flushIdx, handed, payload>>

FlushSendDone ==
    /\ doPc = "flushing"
    /\ \E out \in SendOutcomes :
         IF out = "ok" THEN FlushSendOk ELSE FlushSendError
    /\ UNCHANGED <<postVars, cacheVars>>
    /\ UNCHANGED <<nItems, llmCall, strict, minScore, maxResults, preChecksDone, pc,
                   score, scoreIsInt, scoreFromRanking, rankedAnswers, finalStored,
                   finalRanked, toSend, slotAtScore, slotAtCheck>>

\* ------------------------------------------------------------ environment

\* The handler sets pre_checks_done_event.
PreChecksComplete ==
    /\ ~preChecksDone
    /\ preChecksDone' = TRUE
    /\ UNCHANGED <<postVars, cacheVars>>
    /\ UNCHANGED <<nItems, llmCall, strict, minScore, maxResults, alive, pc, score,
                   scoreIsInt, sent, scoreFromRanking, rankedAnswers, numResultsSent,
                   doPc, finalStored, finalRanked, toSend, flushIdx, handed, payload,
                   delivered, slotAtScore, slotAtCheck, sendFailed>>

\* The connection's owner clears connection_alive_event.
ConnectionLost ==
    /\ alive
    /\ alive' = FALSE
    /\ UNCHANGED <<postVars, cacheVars>>
    /\ UNCHANGED <<nItems, llmCall, strict, minScore, maxResults, preChecksDone, pc,
                   score, scoreIsInt, sent, scoreFromRanking, rankedAnswers,
                   numResultsSent, doPc, finalStored, finalRanked, toSend,
                   flushIdx, handed, payload, delivered, slotAtScore, slotAtCheck, sendFailed>>

Next ==
    \/ DoStart
    \/ \E i \in Items : ScoreDone(i)
    \/ \E i \in Items : PreChecksPassed(i)
    \/ \E i \in Items : SendDone(i)
    \/ DoGathered
    \/ DoPreChecksPassed
    \/ FlushSendDone
    \/ PreChecksComplete
    \/ ConnectionLost

Spec == Init /\ [][Next]_vars

\* The event loop runs every callback that is ready: do() and the tasks
\* resume once what they wait for has happened (ranking.py:98, 186, 199).
FairScheduling ==
    /\ WF_vars(DoStart)
    /\ WF_vars(DoGathered)
    /\ WF_vars(DoPreChecksPassed)
    /\ \A i \in Items : WF_vars(PreChecksPassed(i))

\* Every scoring call ends (llm.py:224-233: asyncio.wait_for bounds it by its
\* timeout) and the handler sets pre_checks_done_event.
FairCollaborators ==
    /\ \A i \in Items : WF_vars(ScoreDone(i))
    /\ WF_vars(PreChecksComplete)

\* One ranking request under fair scheduling, with scoring calls that end and
\* pre-checks that are signalled; nothing is assumed of send_answer.
SpecLive == Spec /\ FairScheduling /\ FairCollaborators

\* ------------------------------------------------- PostQueryProcessing

\* PostQueryProcessing.do() is called for the request once Ranking.do() has
\* returned to the handler.
PostMayStart == doPc = "done"

\* postQueryProcessing.py:46, 125  getattr(self.handler, 'final_ranked_answers', [])
PostResults == IF finalStored THEN finalRanked ELSE <<>>

\* The shapes of the address data of a result: no address field, a string,
\* a string that is only an embedded object (", {...}"), a dict with at
\* least one of the known parts, a dict with none of them.
AddressValues == {"absent", "text", "objectOnly", "dictWithParts", "dictWithoutParts"}

\* postQueryProcessing.py:79-119  _extract_address: None, or the string built
\* from the first address field the result has.
ExtractAddress(a) ==
    CASE a = "absent" -> "None"
      [] a = "text" -> "text"
      [] a = "objectOnly" -> ""
      [] a = "dictWithParts" -> "text"
      [] a = "dictWithoutParts" -> "None"

\* postQueryProcessing.py:57  if address:
HasAddress(a) == ExtractAddress(a) \notin {"None", ""}

\* The address data of the results F of a final set: the results in W carry
\* one shape that yields an address, the others one shape that yields none.
AddressData(F) ==
    {[i \in F |-> IF i \in W THEN y ELSE n] :
        W \in SUBSET F,
        y \in {a \in AddressValues : HasAddress(a)},
        n \in {a \in AddressValues : ~HasAddress(a)}}

\* postQueryProcessing.py:51-62  the results with an address, in the order of
\* the final set.
ResultsWithAddresses(addr) ==
    SelectSeq(PostResults, LAMBDA i : HasAddress(addr[i]))

\* Mutant of MapQualifies: more than half of the results must have an address.
MapQualifiesMajority(withAddr, total) == 2 * withAddr > total /\ withAddr > 0

\* postQueryProcessing.py:67  results_with_addr_count >= total_results / 2
\*                            and results_with_addr_count > 0
MapQualifies(withAddr, total) == 2 * withAddr >= total /\ withAddr > 0

\* postQueryProcessing.py:121-148  summarize_results up to its await ask_llm.
SummarizeStart ==
    postPc' = IF PostResults = <<>> THEN "done" ELSE "summLlm"

\* Mutant of AfterMap: an exception of the map step leaves do().
AfterMapUnlessFailed(m, failed) ==
    IF m /\ ~failed THEN SummarizeStart ELSE postPc' = "done"

\* postQueryProcessing.py:38-40  do() after check_and_send_map_message has
\* returned, with or without an exception swallowed inside it (failed).
AfterMap(m, failed) ==
    IF m THEN SummarizeStart ELSE postPc' = "done"

\* postQueryProcessing.py:44-73  check_and_send_map_message up to its await
\* send_results; addr gives the address data of each result of the final set.
MapStep(m, addr) ==
    LET locations == ResultsWithAddresses(addr)
    IN  /\ withAddress' = {locations[k] : k \in 1..Len(locations)}
        /\ IF PostResults # <<>> /\ MapQualifies(Len(locations), Len(PostResults))
           THEN /\ postPc' = "mapSending"
                /\ synthHanded' = [synthHanded EXCEPT !["LocationMap"] = @ + 1]
                /\ mapLocations' = locations
           ELSE /\ AfterMap(m, FALSE)
                /\ UNCHANGED <<synthHanded, mapLocations>>

\* postQueryProcessing.py:30-73  do() starts: the alive check, then the map
\* step.  handler.modes (m) and the address data of the final set (addr) are
\* inputs of the request, read here.
PostStart ==
    /\ postPc = "idle"
    /\ PostMayStart
    /\ \E m \in BOOLEAN,
          addr \in AddressData({PostResults[k] : k \in 1..Len(PostResults)}) :
         /\ summarize' = m
         /\ IF ~alive
            THEN postPc' = "done" /\ UNCHANGED <<synthHanded, withAddress, mapLocations>>
            ELSE MapStep(m, addr)
    /\ UNCHANGED <<synthDelivered, postFailed>>
    /\ UNCHANGED <<rankVars, cacheVars>>

\* Mutant of SynthSendOk: a synthetic record counts towards the quota.
SynthSendOkCounted(k) ==
    /\ synthDelivered' = [synthDelivered EXCEPT ![k] = @ + 1]
    /\ numResultsSent' = numResultsSent + 1
    /\ UNCHANGED sent

\* postQueryProcessing.py:73, 156  await self.handler.send_results([...])
\* returns: the record of type k is delivered; num_results_sent and the sent
\* flags of the results belong to Ranking and are not touched.
SynthSendOk(k) ==
    /\ synthDelivered' = [synthDelivered EXCEPT ![k] = @ + 1]
    /\ UNCHANGED <<numResultsSent, sent>>

\* postQueryProcessing.py:73-77, 38-40  send_results returns to, or raises
\* in, the map step; every exception is swallowed there and do() goes on.
MapSendDone ==
    /\ postPc = "mapSending"
    /\ \E out \in SendOutcomes :
         IF out = "ok"
         THEN /\ SynthSendOk("LocationMap")
              /\ AfterMap(summarize, FALSE)
              /\ UNCHANGED postFailed
         ELSE /\ postFailed' = postFailed \cup {"map"}
              /\ AfterMap(summarize, TRUE)
              /\ UNCHANGED <<synthDelivered, numResultsSent, sent>>
    /\ UNCHANGED <<summarize, synthHanded, withAddress, mapLocations>>
    /\ UNCHANGED <<postFrame, cacheVars>>

\* postQueryProcessing.py:148-160  ask_llm returns to summarize_results: a
\* response with a 'summary' is sent, any other response ends the step.
SummLlmDone ==
    /\ postPc = "summLlm"
    /\ \E out \in LlmOutcomes, p \in Rankings :
         LET call == AskLlm(out, p)
         IN  IF call.raised
             THEN /\ postFailed' = postFailed \cup {"summarize"}
                  /\ postPc' = "done"
                  /\ UNCHANGED synthHanded
             ELSE IF call.value.ok
             THEN /\ postPc' = "summSending"
                  /\ synthHanded' = [synthHanded EXCEPT !["Summary"] = @ + 1]
                  /\ UNCHANGED postFailed
             ELSE /\ postPc' = "done"
                  /\ UNCHANGED <<synthHanded, postFailed>>
    /\ UNCHANGED <<summarize, synthDelivered, withAddress, mapLocations>>
    /\ UNCHANGED <<rankVars, cacheVars>>

\* postQueryProcessing.py:156-160  send_results returns to, or raises in,
\* summarize_results.
SummSendDone ==
    /\ postPc = "summSending"
    /\ \E out \in SendOutcomes :
         IF out = "ok"
         THEN /\ SynthSendOk("Summary")
              /\ UNCHANGED postFailed
         ELSE /\ postFailed' = postFailed \cup {"summarize"}
              /\ UNCHANGED <<synthDelivered, numResultsSent, sent>>
    /\ postPc' = "done"
    /\ UNCHANGED <<summarize, synthHanded, withAddress, mapLocations>>
    /\ UNCHANGED <<postFrame, cacheVars>>

\* The request from Ranking.do() to the end of PostQueryProcessing.do().
NextPost ==
    \/ Next
    \/ PostStart
    \/ MapSendDone
    \/ SummLlmDone
    \/ SummSendDone

\* The requests in production mode with the default min_score.
InitPost == Init /\ ~strict /\ minScore = DEFAULT_MIN_SCORE

SpecPost == InitPost /\ [][NextPost]_vars



\* ------------------------------------------------ retriever: the calls

\* retriever.py:178-199  VectorDBClient.__init__: the endpoint the client is
\* built for: the query_params override, else endpoint_name, else the first
\* enabled endpoint with valid credentials.
SelectedEndpoint(en, ov) ==
    IF ov # NotGiven THEN ov
    ELSE IF en # NotGiven THEN en
    ELSE Endpoints[1]

\* retriever.py:353-380  get_vector_db_client(endpoint_name, query_params).
GetVectorDbClient(en, ov) ==
    LET key == FactoryKey(en)
        sel == SelectedEndpoint(en, ov)
        new == [kind |-> "VectorDBClient", endpoint |-> sel, id |-> objects + 1]
    IN  /\ calls < MaxCalls
        /\ calls' = calls + 1
        /\ IF key \in DOMAIN clientCache
           THEN /\ lastCall' = [fn |-> "get_vector_db_client", endpoint |-> en,
                                override |-> ov, raised |-> FALSE,
                                result |-> clientCache[key]]
                /\ UNCHANGED <<clientCache, objects>>
           ELSE IF sel \notin EndpointNames
           THEN /\ lastCall' = [fn |-> "get_vector_db_client", endpoint |-> en,
                                override |-> ov, raised |-> TRUE,
                                result |-> NoEntry]
                /\ UNCHANGED <<clientCache, objects>>
           ELSE /\ clientCache' = Put(clientCache, key, new)
                /\ objects' = objects + 1
                /\ lastCall' = [fn |-> "get_vector_db_client", endpoint |-> en,
                                override |-> ov, raised |-> FALSE, result |-> new]
        /\ UNCHANGED <<built, handedOut>>
        /\ UNCHANGED <<rankVars, postVars>>

\* What the construction of a backend client can do: return the client,
\* fail to import its module, or raise (package installation, constructor).
ConstructOutcomes == {"ok", "import_error", "error"}

\* Mutant of GetClient: the cache is not read before constructing.
GetClientNoLookup(e, out) ==
    LET key == BackendKey(e)
        new == [kind |-> "backend", endpoint |-> e, id |-> objects + 1]
    IN  /\ calls < MaxCalls
        /\ calls' = calls + 1
        /\ IF out # "ok"
           THEN /\ lastCall' = [fn |-> "get_client", endpoint |-> e,
                                override |-> NotGiven, raised |-> TRUE,
                                result |-> NoEntry]
                /\ UNCHANGED <<clientCache, objects, built, handedOut>>
           ELSE /\ clientCache' = Put(clientCache, key, new)
                /\ objects' = objects + 1
                /\ built' = Put(built, key, Count(built, key) + 1)
                /\ handedOut' = Put(handedOut, key, Given(handedOut, key) \cup {new.id})
                /\ lastCall' = [fn |-> "get_client", endpoint |-> e,
                                override |-> NotGiven, raised |-> FALSE,
                                result |-> new]
        /\ UNCHANGED <<rankVars, postVars>>

\* retriever.py:260-326  get_client() of a VectorDBClient for endpoint e.  The
\* body runs under _client_cache_lock, which is free whenever a call starts:
\* no holder of the lock suspends, so the call is one step of the event loop.
GetClient(e, out) ==
    LET key == BackendKey(e)
        new == [kind |-> "backend", endpoint |-> e, id |-> objects + 1]
    IN  /\ calls < MaxCalls
        /\ calls' = calls + 1
        /\ IF key \in DOMAIN clientCache
           THEN /\ lastCall' = [fn |-> "get_client", endpoint |-> e,
                                override |-> NotGiven, raised |-> FALSE,
                                result |-> clientCache[key]]
                /\ handedOut' = Put(handedOut, key,
                                    Given(handedOut, key) \cup {clientCache[key].id})
                /\ UNCHANGED <<clientCache, objects, built>>
           ELSE IF out # "ok"
           THEN /\ lastCall' = [fn |-> "get_client", endpoint |-> e,
                                override |-> NotGiven, raised |-> TRUE,
                                result |-> NoEntry]
                /\ UNCHANGED <<clientCache, objects, built, handedOut>>
           ELSE /\ clientCache' = Put(clientCache, key, new)
                /\ objects' = objects + 1
                /\ built' = Put(built, key, Count(built, key) + 1)
                /\ handedOut' = Put(handedOut, key, Given(handedOut, key) \cup {new.id})
                /\ lastCall' = [fn |-> "get_client", endpoint |-> e,
                                override |-> NotGiven, raised |-> FALSE,
                                result |-> new]
        /\ UNCHANGED <<rankVars, postVars>>

\* A caller asks the factory for a client.
FactoryCall ==
    \E en \in EndpointArgs, ov \in OverrideArgs : GetVectorDbClient(en, ov)

\* A coroutine calls get_client on a VectorDBClient of a configured endpoint.
BackendCall ==
    \E e \in EndpointNames, out \in ConstructOutcomes : GetClient(e, out)

NextCache ==
    \/ FactoryCall
    \/ BackendCall

\* The retriever on its own: no ranking request is running.
InitCache ==
    /\ Init
    /\ nItems = 0 /\ ~strict
    /\ minScore = DEFAULT_MIN_SCORE /\ maxResults = NUM_RESULTS_TO_SEND

SpecCache == InitCache /\ [][NextCache]_vars

\* ------------------------------------------------- vocabulary of the claims

\* The result of item i is in self.rankedAnswers.
InAnswers(i) == \E k \in 1..Len(rankedAnswers) : rankedAnswers[k] = i

\* Its position there (arrival order).
Arrival(i) == CHOOSE k \in 1..Len(rankedAnswers) : rankedAnswers[k] = i

InFinal(i) == \E k \in 1..Len(finalRanked) : finalRanked[k] = i

RECURSIVE SumOver(_, _)
SumOver(f, S) ==
    IF S = {} THEN 0
    ELSE LET x == CHOOSE y \in S : TRUE IN f[x] + SumOver(f, S \ {x})

\* send_answer calls started, and completed, in this request.
TotalHanded == SumOver(handed, Items)
TotalDelivered == SumOver(delivered, Items)

\* The qualifying set Q of the request, as a set.
QualifyingSet == {i \in Items : InAnswers(i) /\ score[i] > minScore}

\* gather has returned: the aggregation and the flush come after this point.
Gathered == doPc \notin {"start", "gather"}

\* ------------------------------------------------------------------ claims

\* C1: in one ranking request the number of records handed to the transport
\* by send_answer (early sends plus flush sends) never exceeds maxResults,
\* for every batch and every interleaving of the rankItem tasks.  Stated for
\* the quotas maxResults >= 0, where the bound is meaningful.
C1_DeliveredWithinQuota ==
    maxResults >= 0 => TotalHanded <= maxResults

\* C2: every record delivered in a ranking request, by early send or by the
\* flush, has score > minScore (strict), for every value of min_score.
C2_DeliveredAboveFloor ==
    \A i \in Items : delivered[i] > 0 => score[i] > minScore

\* C3: a result is delivered at most once: it is never delivered twice, its
\* sent flag, once the result is in the collection, changes only from false to
\* true and only in the step in which its send succeeds, and a result that has
\* been delivered is never handed to the transport again.
C3_AtMostOnce ==
    [][\A i \in Items :
          /\ delivered'[i] <= 1
          /\ (InAnswers(i) /\ sent'[i] # sent[i]) =>
                (~sent[i] /\ sent'[i] /\ delivered'[i] = delivered[i] + 1)
          /\ delivered'[i] # delivered[i] => sent'[i]
          /\ handed'[i] # handed[i] => delivered[i] = 0]_vars

\* One result delivered by the early path, the flush run afterwards with a
\* slot left, and another result delivered by the flush.
C3_Witness ==
    \E i, j \in Items :
        /\ i # j /\ doPc = "done" /\ finalStored
        /\ slotAtCheck[i] /\ delivered[i] = 1 /\ InFinal(i)
        /\ toSend = <<j>> /\ delivered[j] = 1

\* No send_answer call is in flight.
NoSendInFlight == doPc # "flushing" /\ \A i \in Items : pc[i] # "sending"

\* C4: once alive has been cleared, no further record of the request is
\* delivered by a scoring task or by the flush: no send starts, and the
\* delivered count and the delivered results do not change.  Stated for the
\* states in which no send was already in flight when alive was cleared.
C4_NoDeliveryAfterDead ==
    [][(~alive /\ NoSendInFlight) =>
          /\ handed' = handed
          /\ delivered' = delivered
          /\ numResultsSent' = numResultsSent]_vars

\* C5: the failure of one item's scoring call does not alter its siblings:
\* when do() has ended with the connection alive, every item whose scoring
\* succeeded is in the collection and those among them that the
\* filter/sort/truncate step keeps when the failing items are absent are in
\* the stored final set.
RECURSIVE UsableAnswers(_)
UsableAnswers(answers) ==
    IF answers = <<>> THEN <<>>
    ELSE IF scoreIsInt[Head(answers)]
         THEN <<Head(answers)>> \o UsableAnswers(Tail(answers))
         ELSE UsableAnswers(Tail(answers))

InSeq(i, seq) == \E k \in 1..Len(seq) : seq[k] = i

C5_SiblingsUnaffected ==
    (doPc \in {"done", "raised"} /\ alive) =>
        \A i \in Items :
            /\ pc[i] = "done" => InAnswers(i)
            /\ InSeq(i, FinalSet(UsableAnswers(rankedAnswers), minScore, maxResults))
                  => (finalStored /\ InFinal(i))

\* C6 (as stated): an item that is early-eligible, with the connection alive
\* and a quota slot free at the moment its scoring call finishes, has been
\* delivered when gather returns, unless a send failed.
C6_SlotAtScoringEnd ==
    [][(doPc = "gather" /\ doPc' # "gather" /\ alive' /\ ~sendFailed') =>
          \A i \in Items : slotAtScore[i] => delivered'[i] = 1]_vars

\* C6 (amended): an item that is early-eligible, with the connection alive
\* when its scoring call finishes and a quota slot free at the moment of its
\* quota check (after the pre-checks wait), has been delivered when gather
\* returns, unless a send failed.
C6_SlotAtQuotaCheck ==
    [][(doPc = "gather" /\ doPc' # "gather" /\ ~sendFailed') =>
          \A i \in Items : slotAtCheck[i] => delivered'[i] = 1]_vars

C6_Witness ==
    \E i \in Items :
        /\ slotAtCheck[i] /\ delivered[i] = 1 /\ Gathered /\ ~sendFailed
        /\ \E j \in Items : slotAtScore[j] /\ ~slotAtCheck[j] /\ pc[j] = "done"

\* C7: the final result set is sorted by score in non-increasing order, and
\* entries with equal scores keep the order in which they were appended.
C7_SortedStable ==
    finalStored =>
        \A j, k \in 1..Len(finalRanked) :
            j < k =>
                /\ score[finalRanked[j]] >= score[finalRanked[k]]
                /\ score[finalRanked[j]] = score[finalRanked[k]] =>
                       Arrival(finalRanked[j]) < Arrival(finalRanked[k])

C7_Witness ==
    /\ finalStored
    /\ Len(finalRanked) = 2
    /\ score[finalRanked[1]] = score[finalRanked[2]]
    /\ finalRanked[1] > finalRanked[2]

\* C8: for maxResults >= 0 the final set is the first min(maxResults, |Q|)
\* entries of the sorted qualifying set Q: at most maxResults entries, each
\* one a distinct qualifying result, and no qualifying result left out scores
\* higher than one kept.
C8_TopOfQualifying ==
    (finalStored /\ maxResults >= 0) =>
        /\ Len(finalRanked) <= maxResults
        /\ Len(finalRanked) =
              IF Cardinality(QualifyingSet) < maxResults
              THEN Cardinality(QualifyingSet) ELSE maxResults
        /\ \A k \in 1..Len(finalRanked) : finalRanked[k] \in QualifyingSet
        /\ \A j, k \in 1..Len(finalRanked) : j # k => finalRanked[j] # finalRanked[k]
        /\ \A i \in QualifyingSet : \A k \in 1..Len(finalRanked) :
              ~InFinal(i) => score[i] <= score[finalRanked[k]]

C8_Witness ==
    /\ finalStored
    /\ maxResults = 1
    /\ Len(finalRanked) = 1
    /\ \E i \in QualifyingSet : ~InFinal(i)

\* C9: clearing alive does not cancel the scoring tasks in flight: a task
\* whose scoring call returns a usable record after alive was cleared still
\* appends its result, and only the delivery is skipped.
C9_NoCancellation ==
    [][\A i \in Items :
          (pc[i] = "scoring" /\ ~alive /\ pc'[i] = "done") =>
              /\ rankedAnswers' = Append(rankedAnswers, i)
              /\ handed'[i] = handed[i]
              /\ delivered'[i] = delivered[i]]_vars

C9_Witness ==
    \E i \in Items :
        /\ ~alive /\ pc[i] = "done" /\ InAnswers(i)
        /\ scoreIsInt[i] /\ score[i] > EARLY_SEND_THRESHOLD
        /\ handed[i] = 0 /\ numResultsSent = 0 /\ maxResults > 0

\* C10: in non-strict mode an item whose scoring call fails (its task ends in
\* the except clause before any send) is never appended to the result
\* collection, is never delivered, and no exception reaches the caller of
\* do().
C10_FailedItemDropped ==
    ~strict =>
        /\ doPc # "raised"
        /\ \A i \in Items :
              (pc[i] = "swallowed" /\ handed[i] = 0) =>
                  (~InAnswers(i) /\ ~InFinal(i) /\ delivered[i] = 0)

\* A task whose scoring call failed: it ended in the except clause of
\* rankItem before any result was built.
ScoringFailed(i) == pc[i] \in {"swallowed", "raised"} /\ ~InAnswers(i) /\ handed[i] = 0

\* C11: in strict mode a scoring failure is propagated to the caller: do()
\* does not return normally when the scoring call of one of its items failed.
C11_StrictPropagates ==
    (strict /\ doPc = "done") => \A i \in Items : ~ScoringFailed(i)

\* C12: the filter, sort and truncate step is idempotent on an unchanged
\* collection: in every state after the final set was stored, running the
\* step again on the collection as it is then (sent flags and counter
\* included) yields the stored final set.
C12_RerunSameFinal ==
    finalStored => finalRanked = FinalSet(rankedAnswers, minScore, maxResults)

C12_Witness ==
    /\ finalStored /\ doPc = "done"
    /\ Len(finalRanked) = 2
    /\ \E i \in Items : InFinal(i) /\ delivered[i] = 1 /\ sent[i]
    /\ numResultsSent > 0

\* The collection the request would hold had the tasks completed in the order
\* in which do() created them (ranking.py:179-181): the same results, in
\* item order.
RECURSIVE LaunchOrder(_)
LaunchOrder(n) ==
    IF n = 0 THEN <<>>
    ELSE LaunchOrder(n - 1) \o (IF InAnswers(n) THEN <<n>> ELSE <<>>)

\* No two qualifying results carry the same score.
DistinctQualifyingScores ==
    \A i, j \in QualifyingSet : i # j => score[i] # score[j]

\* C13 (as stated): for fixed candidates with fixed scores the final set has
\* the same members in the same order for every completion order of the
\* tasks: it is the final set of the run that completes in launch order.
\* Stated for the quotas maxResults >= 0.
C13_OrderIndependent ==
    (finalStored /\ maxResults >= 0) =>
        finalRanked = FinalSet(LaunchOrder(NumItems), minScore, maxResults)

\* C13 (amended): the final set has the same members in the same order for
\* every completion order when no two qualifying results have equal scores;
\* results of equal score are ordered, and cut, by arrival.
C13_OrderIndependentDistinct ==
    (finalStored /\ DistinctQualifyingScores) =>
        finalRanked = FinalSet(LaunchOrder(NumItems), minScore, maxResults)

C13_Witness ==
    /\ finalStored /\ DistinctQualifyingScores
    /\ rankedAnswers = <<2, 1>>
    /\ Cardinality(QualifyingSet) = 2
    /\ Len(finalRanked) >= 1

\* Every result built so far carries a numeric score that is not above the
\* early-send threshold.
NoneAboveThreshold ==
    \A i \in Items : InAnswers(i) => (scoreIsInt[i] /\ ~EarlyEligible(score[i]))

\* C19: when no item scores above the early-send threshold and the
\* connection stays alive with no send failure, nothing is delivered before
\* all scoring tasks have finished, and the flush then delivers exactly the
\* final result set, in its order.  Stated for the quotas maxResults >= 0.
C19_FlushIsFinalSet ==
    /\ (~Gathered /\ NoneAboveThreshold) => TotalHanded = 0
    /\ (doPc = "done" /\ alive /\ ~sendFailed /\ NoneAboveThreshold
            /\ maxResults >= 0) =>
          /\ finalStored
          /\ toSend = finalRanked
          /\ TotalDelivered = Len(finalRanked)
          /\ \A k \in 1..Len(finalRanked) : delivered[finalRanked[k]] = 1

\* C20: the delivered count never decreases, and once it has reached
\* maxResults no further record is delivered, by an early send or by the
\* flush.
C20_QuotaIsFinal ==
    [][/\ numResultsSent' >= numResultsSent
       /\ (numResultsSent >= maxResults => delivered' = delivered)]_vars

\* C14: every record handed to the transport, by an early send or by the
\* flush, carries every field of the result except the score and the sent
\* flag, and carries neither of these two.
C14_RecordWithoutInternals ==
    \A i \in Items :
        handed[i] > 0 =>
            /\ payload[i] \subseteq ResultFields
            /\ \A f \in ResultFields : f \in payload[i] <=> f \notin {"score", "sent"}

C14_Witness ==
    /\ \E i \in Items : pc[i] = "done" /\ delivered[i] = 1 /\ ~InSeq(i, toSend)
    /\ \E i \in Items : InSeq(i, toSend) /\ delivered[i] = 1

\* C18: when the provider call of ask_llm exceeds its timeout, ask_llm raises
\* TimeoutError to its caller.
C18_TimeoutRaised ==
    \A i \in Items : llmCall[i].timedOut => llmCall[i].raised

\* C15: a failure in one post-processing step (of its delivery or of its
\* ask_llm call) never leaves do() with an exception and does not prevent the
\* other step: after a failed map step, do() goes on to the summarization
\* when the summarize mode is on, and otherwise returns normally.
C15_PostFailureContained ==
    [][postFailed' # postFailed =>
          /\ postPc' \in {"summLlm", "done"}
          /\ ("map" \in postFailed' \ postFailed /\ summarize) => postPc' = "summLlm"]_vars

C15_Witness ==
    /\ postPc = "done"
    /\ "map" \in postFailed
    /\ synthDelivered["LocationMap"] = 0
    /\ synthDelivered["Summary"] = 1

\* C16: each synthetic record is handed to the transport at most once per
\* request and, when its send_results call returns, is delivered exactly
\* once, also when the delivered count has reached maxResults; a step of
\* the post-processing changes neither num_results_sent nor a sent flag.
C16_SyntheticOutsideQuota ==
    [][/\ \A k \in SyntheticTypes :
             /\ synthHanded'[k] <= 1
             /\ synthDelivered'[k] <= synthHanded'[k]
       /\ postVars' # postVars => (numResultsSent' = numResultsSent /\ sent' = sent)
       /\ (postPc' = "done" /\ postFailed' = {}) => synthDelivered' = synthHanded']_vars

C16_Witness ==
    /\ postPc = "done"
    /\ maxResults = 1 /\ numResultsSent >= maxResults
    /\ \A k \in SyntheticTypes : synthDelivered[k] = 1

\* C17: the post-processing starts a delivery of a synthetic record only in
\* a state where alive is true and a final set has been stored.
C17_SyntheticOnlyWhenAlive ==
    [][\A k \in SyntheticTypes :
          synthHanded'[k] > synthHanded[k] => (alive /\ finalStored)]_vars

\* C22: in the early-send path the quota check, the delivery and the
\* increment are one atomic step: while a task is between its quota check
\* and its increment (suspended in send_answer), no other task passes the
\* quota check and the delivered count does not change.
C22_CheckSendCountAtomic ==
    [][\A i \in Items :
          (pc[i] = "sending" /\ pc'[i] = "sending") =>
              /\ numResultsSent' = numResultsSent
              /\ \A j \in Items \ {i} : slotAtCheck'[j] = slotAtCheck[j]
              /\ \A j \in Items \ {i} : pc'[j] = "sending" => pc[j] = "sending"]_vars

\* C23: connection loss is checked before each delivery attempt: no call of
\* send_answer, by an early send or by one turn of the flush loop, starts in
\* a state where alive is false.
C23_AliveAtEachSend ==
    [][\A i \in Items : handed'[i] > handed[i] => alive]_vars

\* C24: no result is handed to the transport, by an early send or by the
\* flush, before pre_checks_done has been signalled.
C24_NoSendBeforePreChecks ==
    [][handed' # handed => preChecksDone]_vars

C24_Witness ==
    /\ ~preChecksDone /\ alive /\ maxResults > 0 /\ TotalHanded = 0
    /\ \E i \in Items : pc[i] = "waitPre" /\ EarlyEligible(score[i])
    /\ \E i \in Items : pc[i] = "done" /\ InAnswers(i)

\* C25: when an early send fails with a broken or reset connection, alive is
\* cleared, the item stays unmarked, the delivered count is unchanged, the
\* task ends without an exception, and neither its siblings nor do() are
\* affected.
C25_EarlySendFailure ==
    [][\A i \in Items :
          (pc[i] = "sending" /\ pc'[i] = "done" /\ delivered'[i] = delivered[i]) =>
              /\ ~alive'
              /\ sent' = sent
              /\ numResultsSent' = numResultsSent
              /\ doPc' = doPc
              /\ \A j \in Items \ {i} : pc'[j] = pc[j]]_vars

C25_Witness ==
    /\ ~alive /\ sendFailed /\ numResultsSent = 0
    /\ \E i \in Items : pc[i] = "done" /\ handed[i] = 1 /\ delivered[i] = 0 /\ ~sent[i]
    /\ \E i \in Items : pc[i] = "scoring"
    /\ doPc = "gather"

\* C26: when a send of the flush fails, alive is cleared, the flush ends
\* without sending a later entry, the entries it sent before stay marked and
\* counted, and the failing entry stays unmarked.
C26_FlushFailure ==
    [][/\ (doPc = "flushing" /\ doPc' = "done" /\ delivered' = delivered) =>
             /\ ~alive'
             /\ handed' = handed
             /\ sent' = sent
             /\ numResultsSent' = numResultsSent
       /\ doPc = "done" => (handed' = handed /\ sent' = sent
                              /\ numResultsSent' = numResultsSent)]_vars

C26_Witness ==
    /\ doPc = "done" /\ ~alive /\ sendFailed
    /\ Len(toSend) = 2 /\ flushIdx = 2
    /\ delivered[toSend[1]] = 1 /\ sent[toSend[1]]
    /\ handed[toSend[2]] = 1 /\ delivered[toSend[2]] = 0 /\ ~sent[toSend[2]]
    /\ numResultsSent = 1

\* C29: the final set is stored and the flush started only after every
\* launched task has ended; once the final set is stored no result is
\* appended and no task sends.
C29_AggregateAfterJoin ==
    [][/\ finalStored' => \A i \in Items : pc'[i] \in {"none", "done", "swallowed", "raised"}
       /\ finalStored => (rankedAnswers' = rankedAnswers /\ pc' = pc /\ score' = score)]_vars

C29_Witness ==
    /\ finalStored /\ doPc = "flushing" /\ nItems = 2
    /\ \E i \in Items : slotAtCheck[i] /\ delivered[i] = 1 /\ ~InSeq(i, toSend)
    /\ \E i \in Items : pc[i] = "swallowed" /\ handed[i] = 2 /\ InSeq(i, toSend)

\* C30: when alive is false at the start of do(), no task is created, no
\* scoring call is issued, the collection stays empty and nothing is
\* delivered.
C30_DeadAtStart ==
    [][/\ (doPc = "start" /\ ~alive /\ doPc' # "start") =>
             \A i \in Items : pc'[i] = "none"
       /\ (doPc # "start" /\ \A i \in Items : pc[i] = "none") =>
             /\ pc' = pc
             /\ llmCall' = llmCall
             /\ rankedAnswers' = <<>>
             /\ handed' = handed /\ TotalHanded = 0]_vars

C30_Witness ==
    /\ doPc = "done" /\ ~alive /\ nItems = 2 /\ ~finalStored
    /\ \A i \in Items : pc[i] = "none"
    /\ rankedAnswers = <<>> /\ TotalHanded = 0

\* C27: a transport failure while a synthetic record is delivered clears
\* alive, and the post-processing step that follows makes no delivery
\* attempt.
C27_PostFailureClearsAlive ==
    [][/\ postFailed' # postFailed => ~alive'
       /\ "map" \in postFailed => synthHanded' = synthHanded]_vars

\* C28: when the flush starts (slots = maxResults - deliveredCount > 0), the
\* entries it sets out to deliver are the first min(slots, undelivered)
\* undelivered entries of the truncated final set, in its order, and each of
\* them is a member of the truncated final set; when slots are left, the
\* connection is alive and the flush does not start, the truncated final set
\* has no undelivered entry.
C28_FlushWithinFinalSet ==
    [][/\ (doPc # "flushing" /\ doPc' = "flushing") =>
             /\ toSend' = SliceTo(Unsent(finalRanked'), maxResults - numResultsSent)
             /\ \A k \in 1..Len(toSend') : InSeq(toSend'[k], finalRanked')
       /\ (~finalStored /\ finalStored' /\ doPc' = "done" /\ alive
               /\ maxResults - numResultsSent > 0) =>
             Unsent(finalRanked') = <<>>]_vars

\* do() has returned control to its caller, normally or with an exception.
Returned == doPc \in {"done", "raised"}

\* Every call of send_answer returns or raises.
SendsEnd ==
    /\ \A i \in Items : WF_vars(SendDone(i))
    /\ WF_vars(FlushSendDone)

C31_LowScoreWaitsForFlush ==
    \A i \in Items :
        (InAnswers(i) /\ scoreIsInt[i] /\ ~EarlyEligible(score[i]) /\ ~Gathered) =>
            (handed[i] = 0 /\ ~sent[i])

\* C32: no step of the ranking or of the post-processing sets alive: once it
\* is false it stays false.
C32_AliveNeverSet ==
    [][~alive => ~alive']_vars

C32_Witness ==
    /\ ~alive /\ ~sendFailed /\ postPc = "done"
    /\ \E i \in Items : delivered[i] = 1 /\ pc[i] = "done"
    /\ synthDelivered["Summary"] = 1

\* C33: when alive is false at the moment gather has returned, do() stores
\* no final set, starts no send and returns; nothing changes afterwards.
C33_DeadAfterJoin ==
    [][/\ (doPc = "gather" /\ doPc' # "gather" /\ ~alive) =>
             /\ doPc' = "done"
             /\ finalStored' = finalStored /\ finalRanked' = finalRanked
             /\ handed' = handed
       /\ (doPc = "done" /\ ~finalStored) =>
             (~finalStored' /\ handed' = handed /\ delivered' = delivered)]_vars

C33_Witness ==
    /\ doPc = "done" /\ ~alive /\ ~finalStored /\ preChecksDone
    /\ maxResults > 0 /\ numResultsSent = 0
    /\ \E i \in QualifyingSet : scoreIsInt[i] /\ ~sent[i] /\ handed[i] = 0
    /\ \A i \in Items : InAnswers(i) => scoreIsInt[i]

\* The results of the collection whose sent flag is true.
SentResults == {i \in Items : InAnswers(i) /\ sent[i]}

\* C37: at every suspension point of the request, num_results_sent is the
\* number of results in the collection whose sent flag is true.
C37_CountIsSentFlags ==
    numResultsSent = Cardinality(SentResults)

\* C38: when do() has returned with the connection alive and no send failed,
\* and minScore <= earlySendThreshold, the delivered count has reached
\* maxResults or every qualifying result has been delivered.
C38_NoQualifyingWithheld ==
    (doPc = "done" /\ alive /\ ~sendFailed /\ minScore <= EARLY_SEND_THRESHOLD) =>
        \/ numResultsSent >= maxResults
        \/ \A i \in QualifyingSet : delivered[i] > 0

\* C39: a newly built result carries the score its scoring call returned and
\* sent = false, whatever attributes the item's own JSON object has.
C39_ResultFromScoringCall ==
    [][\A i \in Items :
          (~InAnswers(i) /\ rankedAnswers' = Append(rankedAnswers, i)) =>
              (scoreFromRanking'[i] /\ ~sent'[i])]_vars

\* C34: when do() runs its map step, a LocationMap record is handed to the
\* transport if and only if the final set is non-empty, at least one of its
\* results has an address and the results with an address are at least half
\* of the set; the record lists the results with an address, one location
\* each, in the order of the final set.
C34_LocationMapIffHalf ==
    [][(postPc = "idle" /\ postPc' # "idle" /\ alive) =>
          /\ synthHanded'["LocationMap"] = 1 <=>
                 /\ PostResults # <<>>
                 /\ withAddress' # {}
                 /\ 2 * Cardinality(withAddress') >= Len(PostResults)
          /\ synthHanded'["LocationMap"] = 1 =>
                 mapLocations' = SelectSeq(PostResults, LAMBDA i : i \in withAddress')
          /\ synthHanded'["LocationMap"] = 0 => mapLocations' = <<>>]_vars

C34_Witness ==
    /\ postPc = "mapSending"
    /\ Len(PostResults) = 2
    /\ Cardinality(withAddress) = 1
    /\ mapLocations = <<PostResults[2]>>

\* C35: for the get_client calls that share a key, in any order, at most one
\* backend client is constructed, every call that returns returns that one
\* instance, and a call whose construction failed leaves the cache without
\* an entry for the key.
C35_SingleFlight ==
    [][/\ \A k \in BackendKeys :
             /\ Count(built', k) <= 1
             /\ Cardinality(Given(handedOut', k)) <= 1
             /\ Given(handedOut', k) # {} =>
                    /\ Count(built', k) = 1
                    /\ k \in DOMAIN clientCache'
                    /\ Given(handedOut', k) = {clientCache'[k].id}
       /\ (calls' # calls /\ lastCall'.fn = "get_client" /\ lastCall'.raised) =>
             BackendKey(lastCall'.endpoint) \notin DOMAIN clientCache']_vars

C35_Witness ==
    /\ calls = 3 /\ objects = 1
    /\ lastCall.fn = "get_client" /\ ~lastCall.raised
    /\ \E k \in BackendKeys :
         /\ Count(built, k) = 1
         /\ DOMAIN clientCache = {k}
         /\ lastCall.result = clientCache[k]

\* C36: the client a get_vector_db_client call returns is a VectorDBClient
\* built for the endpoint that the call's arguments select (the override of
\* query_params when given, else endpoint_name, else the default endpoint).
C36_ClientForSelectedEndpoint ==
    [][(calls' # calls /\ lastCall'.fn = "get_vector_db_client" /\ ~lastCall'.raised) =>
          /\ lastCall'.result.kind = "VectorDBClient"
          /\ lastCall'.result.endpoint =
                 SelectedEndpoint(lastCall'.endpoint, lastCall'.override)]_vars

====
